---- MODULE Spec2Model ----
(***************************************************************************)
(* A model of the multithreaded HTTP/HTTPS forward proxy: the acceptor    *)
(* (main.py), the per-connection worker and the sliding-window rate       *)
(* limiter (proxy.py), the HTTP forwarder and the CONNECT tunneler        *)
(* (handlers.py), the statistics map (utils.py) and the file logger       *)
(* (logging_utils.py).                                                     *)
(*                                                                         *)
(* Every accepted connection is one worker thread.  A worker's steps are   *)
(* the suspension points of its code: reading the clock, the critical      *)
(* section under request_counter_lock, socket reads, writes and dials, the *)
(* hostname lookup, the log write, the critical section under              *)
(* domain_stats_lock.  Steps of different workers interleave freely.       *)
(***************************************************************************)
EXTENDS Integers, Sequences, FiniteSets, TLC

(***************************************************************************)
(* Bounds of the model.                                                    *)
(***************************************************************************)
\* Spec: connections the acceptor accepts (all from one client)
MaxConn == 3
\* Spec: connections whose client delivers request bytes (the others close or stay silent)
MaxRequests == 2
\* Spec: last value of the clock
MaxTick == 1
\* SpecLimiter: connections the acceptor accepts from the busy client
MaxCalls == 5
\* SpecLimiter: connections it accepts from the other client
MaxOther == 1
\* SpecLimiter: last value of the clock
MaxTime == 2
\* worker threads alive at one time
MaxWorkers == 2
\* SpecHeaders: lines of a request text after its request line
MaxLines == 3
\* SpecLive: connections accepted
MaxLiveConn == 2
\* SpecClassifier: connections the acceptor accepts
MaxClassifyConn == 1
\* SpecShutdown: connections the acceptor accepts before the interrupt
MaxShutdownConn == 2
\* chunks an origin delivers on one HTTP response / a peer on one relay direction
MaxChunks == 1
\* bytes of one chunk read by tunnel()
ChunkLen == 2

(***************************************************************************)
(* The limiter's parameters, scaled: src/proxy.py:83 sets window = 10      *)
(* (seconds) and src/proxy.py:84 sets limit = 100; the model keeps the     *)
(* code's comparisons and runs them with a window of WINDOW clock ticks    *)
(* and LIMIT admissions.                                                   *)
(***************************************************************************)
WINDOW == 2
LIMIT == 2

\* a worker is named by the slot its thread runs in; a slot is free again
\* once its worker has returned
Conns == 1..MaxWorkers
Busy == "10.0.0.1"
Other == "10.0.0.2"
IPs == {Busy, Other}
Quota(busy, other) == [i \in IPs |-> IF i = Busy THEN busy ELSE other]
\* the clock values of either specification
Times == 0..(MaxTime + MaxTick)
None == "none"

VARIABLES
  clock,            \* time.time() / time.perf_counter(), in ticks
  LOG_FLAG,         \* utils.LOG_FLAG, set once at startup from argv
  accepted,         \* ip -> number of connections accepted from it so far
  delivered,        \* number of connections whose client delivered request bytes
  conn,             \* conn[c]: the worker running in slot c (its last one, once it returned)
  request_counter,  \* proxy.request_counter: ip -> timestamps
  domain_stats,     \* utils.domain_stats: host -> counters
  admits,           \* history: ip -> timestamp -> number of calls admitted with it
  stats_lock,       \* utils.domain_stats_lock: 0 (free) or the slot of the worker holding it
  acceptor,         \* the main thread: the accept loop and the shutdown
  rewrite           \* SpecHeaders: a request text and what modify_headers made of it

vars == <<clock, LOG_FLAG, accepted, delivered, conn, request_counter, domain_stats, admits,
          stats_lock, acceptor, rewrite>>

(***************************************************************************)
(* Requests.  The first line of a request is kept as its parts: the        *)
(* number of space-separated parts, the method, and the target split into  *)
(* scheme, host labels (dot-separated), port text and path.                *)
(***************************************************************************)
Example == <<"example", "com">>
YouTubeMixed == <<"M", "YouTube", "com">>
YouTubeLower == <<"m", "youtube", "com">>

\* the port is kept as the text after ":" ("": the target has no ":")
\* size: the length of the request text
Req(nparts, method, scheme, host, port, path) ==
  [nparts |-> nparts, method |-> method, scheme |-> scheme, host |-> host,
   port |-> port, path |-> path, size |-> nparts + Len(host)]

ReqHttp == Req(3, "GET", "http://", Example, "", "/")
ReqConnect == Req(3, "CONNECT", "", Example, "443", "")
ReqBlockedHttp == Req(3, "GET", "http://", YouTubeMixed, "", "/")
ReqBlockedConnect == Req(3, "connect", "", YouTubeLower, "443", "")
ReqGarbage == Req(1, "GARBAGE", "", <<>>, "", "")
ReqConnectNoPort == Req(3, "CONNECT", "", Example, "", "")
ReqConnectBadPort == Req(3, "CONNECT", "", Example, "abc", "")
ReqHttpOther == Req(3, "GET", "http://", <<"example", "org">>, "", "/")
\* no request was read yet
NoRequest == Req(0, "", "", <<>>, "", "")

Requests == {ReqHttp, ReqConnect, ReqBlockedHttp, ReqBlockedConnect,
             ReqGarbage, ReqConnectNoPort, ReqConnectBadPort}

\* str.upper() on the methods of the model
Upper(s) == CASE s = "connect" -> "CONNECT"
              [] s = "get" -> "GET"
              [] OTHER -> s

\* str.lower() on the host labels of the model
LowerLabel(l) == CASE l = "M" -> "m"
                   [] l = "YouTube" -> "youtube"
                   [] OTHER -> l

Lower(host) == [i \in DOMAIN host |-> LowerLabel(host[i])]

\* hostname None (the empty hostname "" is <<>>)
NoHost == <<"None">>

\* (None, None, None, False)
Invalid == [hostname |-> NoHost, port |-> 0, is_connect |-> FALSE, valid |-> FALSE]

\* the port texts of the model that int() accepts, and the ones \d+ matches
IntTexts == {"443", "80", "0", "-1", "65535", "65536"}
DigitTexts == {"443", "80", "0", "65535", "65536"}

\* int(port_str)
ToInt(p) == CASE p = "443" -> 443
              [] p = "80" -> 80
              [] p = "0" -> 0
              [] p = "-1" -> 0 - 1
              [] p = "65535" -> 65535
              [] p = "65536" -> 65536
              [] OTHER -> 0

\* proxy.parse_server_info: (hostname, port, is_connect, valid)
parse_server_info(r) ==
  IF r.nparts < 2 THEN Invalid
  ELSE IF Upper(r.method) = "CONNECT"
    THEN \* ":" in target, then int(port_str) of the text after the first ":",
         \* which starts with "//" after a scheme and ends with the path if
         \* there is one; a ValueError is caught: invalid
         IF r.port = "" \/ r.port \notin IntTexts \/ r.scheme # "" \/ r.path # ""
           THEN Invalid
         ELSE [hostname |-> Lower(r.host), port |-> ToInt(r.port), is_connect |-> TRUE,
               valid |-> TRUE]
    ELSE \* ^(https?://)?([^/:]+)(?::(\d+))?(/.*)?$
         IF r.host = <<>> \/ (r.port # "" /\ r.port \notin DigitTexts)
           THEN Invalid
           ELSE [hostname |-> Lower(r.host),
                 port |-> IF r.port # "" THEN ToInt(r.port)
                          ELSE IF r.scheme = "https://" THEN 443 ELSE 80,
                 is_connect |-> FALSE, valid |-> TRUE]

\* proxy.BLOCKLIST: each pattern "*.<suffix>" kept as the labels of its suffix
BLOCKLIST == << <<"youtube", "com">>, <<"ytimg", "com">>, <<"googlevideo", "com">> >>

\* fnmatch.fnmatch(hostname, "*.<suffix>"): the name ends with ".<suffix>"
FnMatch(hostname, suffix) ==
  /\ Len(hostname) > Len(suffix)
  /\ \A i \in 1..Len(suffix) : hostname[Len(hostname) - Len(suffix) + i] = suffix[i]

\* proxy.is_blocked
is_blocked(hostname) == \E k \in DOMAIN BLOCKLIST : FnMatch(hostname, BLOCKLIST[k])

(***************************************************************************)
(* The worker of one connection.                                           *)
(***************************************************************************)
NewConn ==
  [pc |-> "new",        \* where the worker stands
   ip |-> None,         \* client_ip_str
   now |-> 0,           \* check_rate_limit's local now (0 outside the call)
   raw |-> NoRequest,   \* the request read from the client
   out |-> <<>>,        \* status lines handed to client_socket.sendall, in order
   client |-> "none",   \* client socket: none | open | closed
   admitted |-> None,   \* what check_rate_limit returned: none | yes | no
   recv |-> None,       \* what client_socket.recv did: none | data | empty | error
   resolved |-> None,   \* gethostbyname: none | ok | failed
   dial |-> None,       \* origin connect: none | ok | failed
   server |-> "none",   \* origin socket: none | open | closed
   sink |-> <<>>,       \* events handed to the file logger
   stdout |-> <<>>,     \* what the worker printed
   start |-> 0,         \* start_time
   ttfb |-> 0 - 1,      \* ttfb (-1: None)
   duration |-> 0,      \* duration
   got |-> 0,           \* HTTP: chunks read from the origin
   sent |-> 0,          \* HTTP: total_bytes_sent (in chunks)
   relay |-> [co |-> "idle", oc |-> "idle"],   \* the two tunnel threads
   bytes |-> [co |-> 0, oc |-> 0],             \* tunnel()'s total_bytes per direction
   wire |-> [co |-> 0, oc |-> 0],              \* history: bytes the relay wrote to to_socket
   updates |-> 0,       \* update_domain_stats calls this worker completed
   end |-> None]        \* how the worker ended

Line429 == "HTTP/1.1 429 Too Many Requests"
Line502 == "HTTP/1.1 502 Bad Gateway"
Line400 == "HTTP/1.1 400 Bad Request"
Line403 == "HTTP/1.1 403 Forbidden"
Line200 == "HTTP/1.1 200 Connection Established"

\* send_error that closes without a status line
send_error_Silent(cn, line, e) ==
  [cn EXCEPT !.pc = "close", !.end = e]

\* proxy.send_error, its first half: the status line is handed to sendall (an
\* exception of sendall is swallowed); e is how the worker will have ended
send_error(cn, line, e) ==
  [cn EXCEPT !.out = Append(@, line), !.pc = "close", !.end = e]

\* a worker's catch-all: except Exception: client_socket.close()
close_client(cn, e) ==
  [cn EXCEPT !.client = "closed", !.pc = "done", !.end = e]

\* the main thread
NewAcceptor ==
  [pc |-> "accept",     \* accept | interrupted | reduce | dump | close | exit | exited | crashed
   listen |-> "open",   \* proxy_socket: open | closed
   fresh |-> FALSE,     \* an iteration of domain_stats is about to start
   size |-> 0,          \* the dict size the running iteration of domain_stats started with
   todo |-> {},         \* the hosts that iteration has not visited yet
   summary |-> "none",  \* Logs/Summary Logs: none | partial | written
   stdout |-> <<>>]     \* what main printed

\* the process lives: os._exit, or the main thread's end while every worker
\* is a daemon thread, ends all threads
Alive == acceptor.pc \notin {"exited", "crashed"}

\* a step of the worker in slot c
Set(c, cn) == Alive /\ conn' = [conn EXCEPT ![c] = cn]

(***************************************************************************)
(* utils.modify_headers.  A text is kept as request_str.split("\r\n"), the *)
(* sequence of its lines; "\r\n".join of the result is the text again.     *)
(***************************************************************************)
LineAbsolute == "GET http://example.com/ HTTP/1.1"
LineOrigin == "GET / HTTP/1.1"
LineHost == "Host: example.com"
LineKeepAlive == "Connection: keep-alive"
LineUpgrade == "connection: upgrade"
LineClose == "Connection: close"

\* line.lower().startswith("connection:")
IsConnectionLine(l) == l \in {LineKeepAlive, LineUpgrade, LineClose}

\* the request line with an absolute http(s) URL cut down to its path
\* (^https?://[^/]+(/.*)$), any other request line as it is
RewriteRequestLine(l) == IF l = LineAbsolute THEN LineOrigin ELSE l

\* new_lines.index(''), or len(new_lines) on ValueError (0-based)
BlankIndex(ls) ==
  IF \E k \in DOMAIN ls : ls[k] = ""
    THEN (CHOOSE k \in DOMAIN ls : ls[k] = "" /\ \A j \in 1..(k - 1) : ls[j] # "") - 1
    ELSE Len(ls)

\* list.insert(i, x)
InsertAt(ls, i, x) == SubSeq(ls, 1, i) \o <<x>> \o SubSeq(ls, i + 1, Len(ls))

\* utils.modify_headers
modify_headers(lines) ==
  LET rest == Tail(lines)
      new_lines == [k \in DOMAIN rest |->
                      IF IsConnectionLine(rest[k]) THEN LineClose ELSE rest[k]]
      found_connection == \E k \in DOMAIN rest : IsConnectionLine(rest[k])
  IN <<RewriteRequestLine(lines[1])>> \o
     (IF found_connection THEN new_lines
      ELSE InsertAt(new_lines, BlankIndex(new_lines), LineClose))

\* the texts of at most n lines over the header lines of the model
RECURSIVE LinesUpTo(_)
LinesUpTo(n) ==
  IF n = 0 THEN {<<>>}
  ELSE LinesUpTo(n - 1) \cup
       {Append(ls, l) : ls \in {x \in LinesUpTo(n - 1) : Len(x) = n - 1},
                        l \in {LineHost, LineKeepAlive, LineUpgrade, ""}}

RequestTexts == {<<first>> \o ls : first \in {LineAbsolute, LineOrigin}, ls \in LinesUpTo(MaxLines)}

\* no text is being rewritten
NoRewrite == [n |-> 0, input |-> <<>>, once |-> <<>>, twice |-> <<>>]

(***************************************************************************)
(* The state after start-up.                                               *)
(***************************************************************************)
InitProxy ==
  /\ clock = 0
  /\ LOG_FLAG \in BOOLEAN
  /\ accepted = [i \in IPs |-> 0]
  /\ delivered = 0
  /\ conn = [c \in Conns |-> NewConn]
  /\ request_counter = [i \in IPs |-> <<>>]
  /\ domain_stats = <<>>
  /\ admits = [i \in IPs |-> [t \in Times |-> 0]]
  /\ stats_lock = 0
  /\ acceptor = NewAcceptor

Init == InitProxy /\ rewrite = NoRewrite

\* time passes
Tick(last) ==
  /\ clock < last
  /\ clock' = clock + 1
  /\ UNCHANGED <<rewrite, acceptor, stats_lock, LOG_FLAG, accepted, delivered, conn, request_counter, domain_stats, admits>>

\* main's accept loop: accept, start the worker thread; proxy() sets the
\* socket timeout and client_ip_str
Free == {c \in Conns : conn[c].pc \in {"new", "done"}}

Accept(quota) ==
  /\ acceptor.pc = "accept"
  /\ Free # {}
  /\ \E i \in IPs :
       LET c == CHOOSE f \in Free : \A g \in Free : f <= g
       IN /\ accepted[i] < quota[i]
          /\ accepted' = [accepted EXCEPT ![i] = @ + 1]
          /\ Set(c, [NewConn EXCEPT !.pc = "start", !.ip = i, !.client = "open"])
  /\ UNCHANGED <<rewrite, acceptor, stats_lock, clock, LOG_FLAG, delivered, request_counter, domain_stats, admits>>

(***************************************************************************)
(* check_rate_limit.                                                       *)
(***************************************************************************)
\* now = time.time(), read before the lock is taken
ReadClock(c) ==
  /\ conn[c].pc = "start"
  /\ Set(c, [conn[c] EXCEPT !.pc = "lock", !.now = clock])
  /\ UNCHANGED <<rewrite, acceptor, stats_lock, clock, LOG_FLAG, accepted, delivered, request_counter, domain_stats, admits>>

\* Prune with the window's edge kept: now - t <= window
Prune_Le(ledger, now) == SelectSeq(ledger, LAMBDA t : now - t <= WINDOW)

\* Prune that drops nothing
Prune_None(ledger, now) == ledger

\* AtLimit off by one: len(...) > limit
AtLimit_Gt(ledger) == Len(ledger) > LIMIT

\* [t for t in request_counter[client_ip] if now - t < window]
Prune(ledger, now) == SelectSeq(ledger, LAMBDA t : now - t < WINDOW)

\* len(request_counter[client_ip]) >= limit
AtLimit(ledger) == Len(ledger) >= LIMIT

\* the critical section under request_counter_lock
CheckRateLimit(c) ==
  /\ conn[c].pc = "lock"
  /\ LET i == conn[c].ip
         kept == Prune(request_counter[i], conn[c].now)
         ok == ~AtLimit(kept)
     IN /\ request_counter' = [request_counter EXCEPT ![i] =
                                 IF ok THEN Append(kept, conn[c].now) ELSE kept]
        /\ admits' = IF ok THEN [admits EXCEPT ![i][conn[c].now] = @ + 1] ELSE admits
        /\ Set(c, [conn[c] EXCEPT !.pc = IF ok THEN "recv" ELSE "denied",
                                  !.admitted = IF ok THEN "yes" ELSE "no", !.now = 0])
  /\ UNCHANGED <<rewrite, acceptor, stats_lock, clock, LOG_FLAG, accepted, delivered, domain_stats>>

\* proxy: the rate limit was exceeded
ProxyDenied(c) ==
  /\ conn[c].pc = "denied"
  /\ Set(c, send_error([conn[c] EXCEPT !.stdout = Append(@, "Rate limit exceeded")],
                       Line429, "rate_limited"))
  /\ UNCHANGED <<rewrite, acceptor, stats_lock, clock, LOG_FLAG, accepted, delivered, request_counter, domain_stats, admits>>

\* ProxyClose that gives the admission back: the timestamp of a connection
\* that was admitted and then answered with an error leaves the ledger
ProxyClose_Refund(c) ==
  /\ conn[c].pc = "close"
  /\ Set(c, [conn[c] EXCEPT !.client = "closed", !.pc = "done"])
  /\ request_counter' =
       IF conn[c].admitted = "yes" /\ request_counter[conn[c].ip] # <<>>
         THEN [request_counter EXCEPT ![conn[c].ip] = SubSeq(@, 1, Len(@) - 1)]
         ELSE request_counter
  /\ UNCHANGED <<rewrite, acceptor, stats_lock, clock, LOG_FLAG, accepted, delivered, domain_stats, admits>>

\* proxy.send_error, its second half: client_socket.close(); proxy returns
ProxyClose(c) ==
  /\ conn[c].pc = "close"
  /\ Set(c, [conn[c] EXCEPT !.client = "closed", !.pc = "done"])
  /\ UNCHANGED <<rewrite, acceptor, stats_lock, clock, LOG_FLAG, accepted, delivered, request_counter, domain_stats, admits>>

(***************************************************************************)
(* proxy: read, classify, policy.                                          *)
(***************************************************************************)

\* BlockedEvent without the test of LOG_FLAG
BlockedEvent_Always(cn, hostname, ok) ==
  [cn EXCEPT !.sink = Append(@, [kind |-> "RequestBlocked", host |-> hostname,
                                  ip |-> cn.ip])]

\* log_blocked_request behind "if utils.LOG_FLAG" and its try/except: the
\* event is handed to the logger when logging is enabled; a failure of the
\* logger (ok = FALSE) is printed and the worker goes on
BlockedEvent(cn, hostname, ok) ==
  IF LOG_FLAG
    THEN [cn EXCEPT !.sink = Append(@, [kind |-> "RequestBlocked", host |-> hostname,
                                         ip |-> cn.ip]),
                    !.stdout = IF ok THEN @ ELSE Append(@, "Failed to log blocked request")]
    ELSE cn

\* ProxyClassify without the blocklist: every valid request goes on to resolve
ProxyClassify_NoPolicy(cn, ok) ==
  LET p == parse_server_info(cn.raw)
  IN IF ~p.valid \/ p.hostname = NoHost
       THEN send_error(cn, Line400, "malformed")
       ELSE [cn EXCEPT !.pc = "resolve"]

\* the request was read: parse_server_info, is_blocked
ProxyClassify(cn, ok) ==
  LET p == parse_server_info(cn.raw)
  IN IF ~p.valid \/ p.hostname = NoHost
       THEN send_error(cn, Line400, "malformed")
       ELSE IF is_blocked(p.hostname)
         THEN send_error(BlockedEvent([cn EXCEPT !.stdout = Append(@, "Blocked request")],
                                      p.hostname, ok),
                         Line403, "blocked")
         ELSE [cn EXCEPT !.pc = "resolve"]

\* raw = client_socket.recv(BUFFER_SIZE) returned request bytes, one of reqs
ProxyRecv(c, reqs) ==
  /\ conn[c].pc = "recv"
  /\ delivered < MaxRequests
  /\ delivered' = delivered + 1
  /\ \E r \in reqs, ok \in BOOLEAN :
       Set(c, ProxyClassify([conn[c] EXCEPT !.raw = r, !.recv = "data"], ok))
  /\ UNCHANGED <<rewrite, acceptor, stats_lock, clock, LOG_FLAG, accepted, request_counter, domain_stats, admits>>

ProxyRecvData(c) == ProxyRecv(c, Requests)

\* recv returned b"": the client closed without sending
ProxyRecvEmpty(c) ==
  /\ conn[c].pc = "recv"
  /\ Set(c, send_error([conn[c] EXCEPT !.recv = "empty"], Line502, "empty_read"))
  /\ UNCHANGED <<rewrite, acceptor, stats_lock, clock, LOG_FLAG, accepted, delivered, request_counter, domain_stats, admits>>

\* recv raised (the 1 s timeout, a reset): caught by proxy's except Exception
ProxyRecvError(c) ==
  /\ conn[c].pc = "recv"
  /\ Set(c, close_client([conn[c] EXCEPT !.recv = "error"], "read_error"))
  /\ UNCHANGED <<rewrite, acceptor, stats_lock, clock, LOG_FLAG, accepted, delivered, request_counter, domain_stats, admits>>

\* socket.gethostbyname(hostname), then start_time = time.perf_counter()
ProxyResolve(c) ==
  /\ conn[c].pc = "resolve"
  /\ \/ Set(c, [conn[c] EXCEPT !.resolved = "ok", !.start = clock,
                  !.pc = IF parse_server_info(conn[c].raw).is_connect
                           THEN "https_dial" ELSE "http_dial"])
     \/ Set(c, send_error([conn[c] EXCEPT !.resolved = "failed"], Line502, "unresolvable"))
  /\ UNCHANGED <<rewrite, acceptor, stats_lock, clock, LOG_FLAG, accepted, delivered, request_counter, domain_stats, admits>>

(***************************************************************************)
(* The report both handlers end with: log_request, update_domain_stats.    *)
(***************************************************************************)
\* a handler's except Exception: print, client_socket.close(); leaving the
\* with block has closed the origin socket
handler_except(cn, e) ==
  [cn EXCEPT !.stdout = Append(@, "handler error"), !.client = "closed",
             !.server = IF @ = "open" THEN "closed" ELSE @,
             !.relay = [co |-> IF @.co = "idle" THEN "idle" ELSE "done",
                        oc |-> IF @.oc = "idle" THEN "idle" ELSE "done"],
             !.pc = "done", !.end = e]

IsConnect(cn) == parse_server_info(cn.raw).is_connect
Hostname(cn) == parse_server_info(cn.raw).hostname

\* bytes_sent and bytes_received as the handler reports them
BytesSent(cn) == IF IsConnect(cn) THEN cn.bytes.oc ELSE cn.sent
BytesReceived(cn) == IF IsConnect(cn) THEN cn.bytes.co ELSE cn.raw.size

CompletedEvent(cn) ==
  [kind |-> "RequestCompleted", host |-> Hostname(cn),
   protocol |-> IF IsConnect(cn) THEN "CONNECT" ELSE "HTTP",
   bytes_sent |-> BytesSent(cn), bytes_received |-> BytesReceived(cn),
   duration |-> cn.duration, ttfb |-> cn.ttfb]

\* logging_utils.log_request: nothing unless LOG_FLAG; writing the file may raise
LogRequest(c) ==
  /\ conn[c].pc = "log"
  /\ IF ~LOG_FLAG
       THEN Set(c, [conn[c] EXCEPT !.pc = "stats"])
       ELSE \/ Set(c, [conn[c] EXCEPT !.sink = Append(@, CompletedEvent(conn[c])),
                                      !.pc = "stats"])
            \/ Set(c, handler_except([conn[c] EXCEPT !.sink = Append(@, CompletedEvent(conn[c]))],
                                     "sink_error"))
  /\ UNCHANGED <<rewrite, acceptor, stats_lock, clock, LOG_FLAG, accepted, delivered, request_counter, domain_stats, admits>>

NoStats == [requests |-> 0, bytes_sent |-> 0, bytes_received |-> 0,
            total_duration |-> 0, total_ttfb |-> 0]

StatsOf(h) == IF h \in DOMAIN domain_stats THEN domain_stats[h] ELSE NoStats

\* Updated that starts from a fresh entry each time: the earlier calls are lost
Updated_Lost(h, bytes_sent, bytes_received, duration, ttfb) ==
  [requests |-> 1, bytes_sent |-> bytes_sent, bytes_received |-> bytes_received,
   total_duration |-> duration, total_ttfb |-> IF ttfb # 0 - 1 THEN ttfb ELSE 0]

\* the entry of hostname after update_domain_stats(hostname, sent, received, duration, ttfb)
Updated(h, bytes_sent, bytes_received, duration, ttfb) ==
  [requests |-> StatsOf(h).requests + 1,
   bytes_sent |-> StatsOf(h).bytes_sent + bytes_sent,
   bytes_received |-> StatsOf(h).bytes_received + bytes_received,
   total_duration |-> StatsOf(h).total_duration + duration,
   total_ttfb |-> StatsOf(h).total_ttfb + (IF ttfb # 0 - 1 THEN ttfb ELSE 0)]

\* the entry of hostname after the first three additions only: the entry has
\* no 'total_duration' key and stats['total_duration'] += duration raises
UpdatedUntilKeyError(h, bytes_sent, bytes_received) ==
  [domain_stats[h] EXCEPT !.requests = @ + 1, !.bytes_sent = @ + bytes_sent,
                          !.bytes_received = @ + bytes_received]

\* update_domain_stats: with domain_stats_lock, entered
StatsAcquire(c) ==
  /\ conn[c].pc = "stats"
  /\ stats_lock = 0
  /\ stats_lock' = c
  /\ Set(c, [conn[c] EXCEPT !.pc = "stats_cs"])
  /\ UNCHANGED <<rewrite, acceptor, clock, LOG_FLAG, accepted, delivered, request_counter, domain_stats, admits>>

\* utils.update_domain_stats, the body under domain_stats_lock and the
\* release, then the handler's end: handle_https closes the origin socket (the
\* with block) and the client socket; handle_http closed the origin socket
\* before the report and returns.  On an entry without its 'total_duration'
\* key the body raises KeyError after three additions: the handler's except
UpdateStats(c) ==
  /\ conn[c].pc = "stats_cs"
  /\ stats_lock' = 0
  /\ LET h == Hostname(conn[c])
         broken == h \in DOMAIN domain_stats /\ "total_duration" \notin DOMAIN domain_stats[h]
         e == IF broken
                THEN UpdatedUntilKeyError(h, BytesSent(conn[c]), BytesReceived(conn[c]))
                ELSE Updated(h, BytesSent(conn[c]), BytesReceived(conn[c]),
                             conn[c].duration, conn[c].ttfb)
     IN /\ domain_stats' = [k \in DOMAIN domain_stats \cup {h} |->
                              IF k = h THEN e ELSE domain_stats[k]]
        /\ IF broken
             THEN Set(c, handler_except(conn[c], "stats_error"))
             ELSE Set(c, [conn[c] EXCEPT !.updates = @ + 1, !.pc = "done",
                                         !.end = "completed", !.server = "closed",
                                         !.client = IF IsConnect(conn[c]) THEN "closed" ELSE @])
  /\ UNCHANGED <<rewrite, acceptor, clock, LOG_FLAG, accepted, delivered, request_counter, admits>>

(***************************************************************************)
(* handlers.handle_http                                                    *)
(***************************************************************************)
\* HttpDialFail with the report outside the try: the failed dial is reported
HttpDialFail_Reports(c) ==
  /\ conn[c].pc = "http_dial"
  /\ Set(c, [conn[c] EXCEPT !.dial = "failed", !.server = "closed", !.pc = "log"])
  /\ UNCHANGED <<rewrite, acceptor, stats_lock, clock, LOG_FLAG, accepted, delivered, request_counter, domain_stats, admits>>

\* server_socket.connect failed (refused, the 5 s timeout)
HttpDialFail(c) ==
  /\ conn[c].pc = "http_dial"
  /\ Set(c, handler_except([conn[c] EXCEPT !.dial = "failed", !.server = "closed"],
                           "dial_failed"))
  /\ UNCHANGED <<rewrite, acceptor, stats_lock, clock, LOG_FLAG, accepted, delivered, request_counter, domain_stats, admits>>

\* connect succeeded; sendall of the rewritten request succeeds or raises
HttpDial(c) ==
  /\ conn[c].pc = "http_dial"
  /\ \/ Set(c, [conn[c] EXCEPT !.dial = "ok", !.server = "open", !.pc = "http_loop"])
     \/ Set(c, handler_except([conn[c] EXCEPT !.dial = "ok", !.server = "open"],
                              "handler_error"))
  /\ UNCHANGED <<rewrite, acceptor, stats_lock, clock, LOG_FLAG, accepted, delivered, request_counter, domain_stats, admits>>

\* a chunk was read from the origin; client_socket.sendall delivers it, times
\* out (except socket.timeout: continue) or raises another error
HttpChunk(c) ==
  /\ conn[c].pc = "http_loop"
  /\ conn[c].got < MaxChunks
  /\ LET cn == [conn[c] EXCEPT !.got = @ + 1]
     IN \/ Set(c, [cn EXCEPT !.sent = @ + 1,
                             !.ttfb = IF @ = 0 - 1 THEN clock - cn.start ELSE @])
        \/ Set(c, cn)
        \/ Set(c, handler_except(cn, "client_gone"))
  /\ UNCHANGED <<rewrite, acceptor, stats_lock, clock, LOG_FLAG, accepted, delivered, request_counter, domain_stats, admits>>

\* server_socket.recv timed out: except socket.timeout: continue
HttpRecvTimeout(c) ==
  /\ conn[c].pc = "http_loop"
  /\ UNCHANGED vars

\* server_socket.recv raised another error (a reset)
HttpRecvError(c) ==
  /\ conn[c].pc = "http_loop"
  /\ Set(c, handler_except(conn[c], "origin_reset"))
  /\ UNCHANGED <<rewrite, acceptor, stats_lock, clock, LOG_FLAG, accepted, delivered, request_counter, domain_stats, admits>>

\* the origin closed: break, the with block closes the origin socket, duration
HttpEof(c) ==
  /\ conn[c].pc = "http_loop"
  /\ Set(c, [conn[c] EXCEPT !.server = "closed", !.duration = clock - conn[c].start,
                            !.pc = "log"])
  /\ UNCHANGED <<rewrite, acceptor, stats_lock, clock, LOG_FLAG, accepted, delivered, request_counter, domain_stats, admits>>

(***************************************************************************)
(* handlers.handle_https and handlers.tunnel                               *)
(***************************************************************************)
\* server_socket.connect failed (refused, the 2 s timeout)
HttpsDialFail(c) ==
  /\ conn[c].pc = "https_dial"
  /\ Set(c, handler_except([conn[c] EXCEPT !.dial = "failed", !.server = "closed"],
                           "dial_failed"))
  /\ UNCHANGED <<rewrite, acceptor, stats_lock, clock, LOG_FLAG, accepted, delivered, request_counter, domain_stats, admits>>

\* HttpsDial that starts the relays without the 200 line
HttpsDial_NoReply(c) ==
  /\ conn[c].pc = "https_dial"
  /\ Set(c, [conn[c] EXCEPT !.dial = "ok", !.server = "open",
                            !.relay = [co |-> "run", oc |-> "run"], !.pc = "tunnel"])
  /\ UNCHANGED <<rewrite, acceptor, stats_lock, clock, LOG_FLAG, accepted, delivered, request_counter, domain_stats, admits>>

\* server_socket.connect succeeded
HttpsDial(c) ==
  /\ conn[c].pc = "https_dial"
  /\ Set(c, [conn[c] EXCEPT !.dial = "ok", !.server = "open", !.pc = "https_200"])
  /\ UNCHANGED <<rewrite, acceptor, stats_lock, clock, LOG_FLAG, accepted, delivered, request_counter, domain_stats, admits>>

\* client_socket.sendall(200 Connection Established), ttfb, both threads started
HttpsEstablished(c) ==
  /\ conn[c].pc = "https_200"
  /\ Set(c, [conn[c] EXCEPT !.out = Append(@, Line200), !.ttfb = clock - conn[c].start,
                            !.relay = [co |-> "run", oc |-> "run"], !.pc = "tunnel"])
  /\ UNCHANGED <<rewrite, acceptor, stats_lock, clock, LOG_FLAG, accepted, delivered, request_counter, domain_stats, admits>>

\* that sendall raised (the client is gone): the line was handed to sendall,
\* the except branch closes
HttpsSendFail(c) ==
  /\ conn[c].pc = "https_200"
  /\ Set(c, handler_except([conn[c] EXCEPT !.out = Append(@, Line200)], "handler_error"))
  /\ UNCHANGED <<rewrite, acceptor, stats_lock, clock, LOG_FLAG, accepted, delivered, request_counter, domain_stats, admits>>

Dirs == {"co", "oc"}

\* tunnel: a chunk read from from_socket and written to to_socket:
\* to_socket.sendall(data); total_bytes += len(data)
RelayForward(c, d) ==
  /\ conn[c].pc = "tunnel"
  /\ conn[c].relay[d] = "run"
  /\ conn[c].bytes[d] < MaxChunks * ChunkLen
  /\ Set(c, [conn[c] EXCEPT !.bytes[d] = @ + ChunkLen, !.wire[d] = @ + ChunkLen])
  /\ UNCHANGED <<rewrite, acceptor, stats_lock, clock, LOG_FLAG, accepted, delivered, request_counter, domain_stats, admits>>

\* tunnel: a chunk was read and to_socket.sendall(data) raised socket.error
\* (the peer is gone, the socket's timeout) after k of its bytes were written:
\* sendall does not tell how many; the chunk is not counted, the thread ends
RelayWriteError(c, d) ==
  /\ conn[c].pc = "tunnel"
  /\ conn[c].relay[d] = "run"
  /\ conn[c].bytes[d] < MaxChunks * ChunkLen
  /\ \E k \in 0..(ChunkLen - 1) :
       Set(c, [conn[c] EXCEPT !.wire[d] = @ + k, !.relay[d] = "done"])
  /\ UNCHANGED <<rewrite, acceptor, stats_lock, clock, LOG_FLAG, accepted, delivered, request_counter, domain_stats, admits>>

\* tunnel: recv returned b"" (break) or recv raised socket.error (a reset,
\* the socket's timeout: pass); the thread appends its total and ends
RelayEnd(c, d) ==
  /\ conn[c].pc = "tunnel"
  /\ conn[c].relay[d] = "run"
  /\ Set(c, [conn[c] EXCEPT !.relay[d] = "done"])
  /\ UNCHANGED <<rewrite, acceptor, stats_lock, clock, LOG_FLAG, accepted, delivered, request_counter, domain_stats, admits>>

\* HttpsJoin that waits for one of the two threads only
HttpsJoin_One(c) ==
  /\ conn[c].pc = "tunnel"
  /\ \E d \in Dirs : conn[c].relay[d] = "done"
  /\ Set(c, [conn[c] EXCEPT !.duration = clock - conn[c].start, !.pc = "log"])
  /\ UNCHANGED <<rewrite, acceptor, stats_lock, clock, LOG_FLAG, accepted, delivered, request_counter, domain_stats, admits>>

\* thread1.join(); thread2.join(); the totals and the duration
HttpsJoin(c) ==
  /\ conn[c].pc = "tunnel"
  /\ \A d \in Dirs : conn[c].relay[d] = "done"
  /\ Set(c, [conn[c] EXCEPT !.duration = clock - conn[c].start, !.pc = "log"])
  /\ UNCHANGED <<rewrite, acceptor, stats_lock, clock, LOG_FLAG, accepted, delivered, request_counter, domain_stats, admits>>

Next ==
  \/ Tick(MaxTick)
  \/ Accept(Quota(MaxConn, 0))
  \/ \E c \in Conns : ReadClock(c)
  \/ \E c \in Conns : CheckRateLimit(c)
  \/ \E c \in Conns : ProxyDenied(c)
  \/ \E c \in Conns : ProxyClose(c)
  \/ \E c \in Conns : ProxyRecvData(c)
  \/ \E c \in Conns : ProxyRecvEmpty(c)
  \/ \E c \in Conns : ProxyRecvError(c)
  \/ \E c \in Conns : ProxyResolve(c)
  \/ \E c \in Conns : HttpDialFail(c)
  \/ \E c \in Conns : HttpDial(c)
  \/ \E c \in Conns : HttpChunk(c)
  \/ \E c \in Conns : HttpRecvTimeout(c)
  \/ \E c \in Conns : HttpRecvError(c)
  \/ \E c \in Conns : HttpEof(c)
  \/ \E c \in Conns : HttpsDialFail(c)
  \/ \E c \in Conns : HttpsDial(c)
  \/ \E c \in Conns : HttpsEstablished(c)
  \/ \E c \in Conns : HttpsSendFail(c)
  \/ \E c \in Conns, d \in Dirs : RelayForward(c, d)
  \/ \E c \in Conns, d \in Dirs : RelayWriteError(c, d)
  \/ \E c \in Conns, d \in Dirs : RelayEnd(c, d)
  \/ \E c \in Conns : HttpsJoin(c)
  \/ \E c \in Conns : LogRequest(c)
  \/ \E c \in Conns : StatsAcquire(c)
  \/ \E c \in Conns : UpdateStats(c)

Spec == Init /\ [][Next]_vars

(***************************************************************************)
(* The workers under the scheduler: a thread that can take a step takes    *)
(* one.  A blocked recv of a relay returns (data, the end, an error or the  *)
(* socket's timeout), join returns once both threads ended, the report     *)
(* runs to its end.  What the peers of the HTTP forwarder do is left open.  *)
(* MaxLiveConn connections stay within LIMIT: none is denied.               *)
(***************************************************************************)
NextLive ==
  \/ Tick(MaxTick)
  \/ Accept(Quota(MaxLiveConn, 0))
  \/ \E c \in Conns : ReadClock(c)
  \/ \E c \in Conns : CheckRateLimit(c)
  \/ \E c \in Conns : ProxyClose(c)
  \/ \E c \in Conns : ProxyRecvData(c)
  \/ \E c \in Conns : ProxyRecvEmpty(c)
  \/ \E c \in Conns : ProxyRecvError(c)
  \/ \E c \in Conns : ProxyResolve(c)
  \/ \E c \in Conns : HttpDialFail(c)
  \/ \E c \in Conns : HttpDial(c)
  \/ \E c \in Conns : HttpChunk(c)
  \/ \E c \in Conns : HttpRecvTimeout(c)
  \/ \E c \in Conns : HttpRecvError(c)
  \/ \E c \in Conns : HttpEof(c)
  \/ \E c \in Conns : HttpsDialFail(c)
  \/ \E c \in Conns : HttpsDial(c)
  \/ \E c \in Conns : HttpsEstablished(c)
  \/ \E c \in Conns : HttpsSendFail(c)
  \/ \E c \in Conns, d \in Dirs : RelayForward(c, d)
  \/ \E c \in Conns, d \in Dirs : RelayWriteError(c, d)
  \/ \E c \in Conns, d \in Dirs : RelayEnd(c, d)
  \/ \E c \in Conns : HttpsJoin(c)
  \/ \E c \in Conns : LogRequest(c)
  \/ \E c \in Conns : StatsAcquire(c)
  \/ \E c \in Conns : UpdateStats(c)

Scheduled(c) ==
  /\ \A d \in Dirs : WF_vars(RelayForward(c, d) \/ RelayWriteError(c, d) \/ RelayEnd(c, d))
  /\ WF_vars(HttpsJoin(c))
  /\ WF_vars(LogRequest(c))
  /\ WF_vars(StatsAcquire(c))
  /\ WF_vars(UpdateStats(c))

SpecLive == Init /\ [][NextLive]_vars /\ \A c \in Conns : Scheduled(c)

(***************************************************************************)
(* Admission and rejection: two IPs whose requests all end rejected, by an  *)
(* empty or failed read, a malformed or blocked request, a hostname that    *)
(* does not resolve or an origin that refuses the connection.               *)
(***************************************************************************)
AdmissionRequests == {ReqGarbage, ReqBlockedHttp, ReqHttp, ReqConnect}

ProxyRecvAdmission(c) == ProxyRecv(c, AdmissionRequests)

NextAdmission ==
  \/ Tick(MaxTick)
  \/ Accept(Quota(MaxConn, MaxOther))
  \/ \E c \in Conns : ReadClock(c)
  \/ \E c \in Conns : CheckRateLimit(c)
  \/ \E c \in Conns : ProxyDenied(c)
  \/ \E c \in Conns : ProxyClose(c)
  \/ \E c \in Conns : ProxyRecvAdmission(c)
  \/ \E c \in Conns : ProxyRecvEmpty(c)
  \/ \E c \in Conns : ProxyRecvError(c)
  \/ \E c \in Conns : ProxyResolve(c)
  \/ \E c \in Conns : HttpDialFail(c)
  \/ \E c \in Conns : HttpsDialFail(c)

SpecAdmission == Init /\ [][NextAdmission]_vars

(***************************************************************************)
(* The limiter under load: more connections, from clients that send no     *)
(* request (they close, or stay silent until the read times out).          *)
(***************************************************************************)
NextLimiter ==
  \/ Tick(MaxTime)
  \/ Accept(Quota(MaxCalls, MaxOther))
  \/ \E c \in Conns : ReadClock(c)
  \/ \E c \in Conns : CheckRateLimit(c)
  \/ \E c \in Conns : ProxyDenied(c)
  \/ \E c \in Conns : ProxyClose(c)
  \/ \E c \in Conns : ProxyRecvEmpty(c)
  \/ \E c \in Conns : ProxyRecvError(c)

SpecLimiter == Init /\ [][NextLimiter]_vars

(***************************************************************************)
(* The classifier on a wider set of request lines.                         *)
(***************************************************************************)
PortTexts == IntTexts \cup {"", "abc"}

AllRequests ==
  {Req(n, m, s, h, p, t) :
     n \in 1..3, m \in {"GET", "get", "CONNECT", "connect", "GARBAGE"},
     s \in {"", "http://", "https://"},
     h \in {<<>>, Example, YouTubeMixed, YouTubeLower},
     p \in PortTexts, t \in {"", "/"}}

ProxyRecvAny(c) == ProxyRecv(c, AllRequests)

NextClassifier ==
  \/ Accept(Quota(MaxClassifyConn, 0))
  \/ \E c \in Conns : ReadClock(c)
  \/ \E c \in Conns : CheckRateLimit(c)
  \/ \E c \in Conns : ProxyRecvAny(c)
  \/ \E c \in Conns : ProxyClose(c)

SpecClassifier == Init /\ [][NextClassifier]_vars

(***************************************************************************)
(* modify_headers on the request texts of the model, applied once (as      *)
(* handle_http does) and once more to its own output.                      *)
(***************************************************************************)
InitHeaders ==
  /\ InitProxy
  /\ \E t \in RequestTexts : rewrite = [NoRewrite EXCEPT !.input = t]

ModifyHeaders ==
  /\ rewrite.n = 0
  /\ rewrite' = [rewrite EXCEPT !.n = 1, !.once = modify_headers(rewrite.input)]
  /\ UNCHANGED <<clock, LOG_FLAG, accepted, delivered, conn, request_counter, domain_stats,
                 admits, stats_lock, acceptor>>

ModifyHeadersAgain ==
  /\ rewrite.n = 1
  /\ rewrite' = [rewrite EXCEPT !.n = 2, !.twice = modify_headers(rewrite.once)]
  /\ UNCHANGED <<clock, LOG_FLAG, accepted, delivered, conn, request_counter, domain_stats,
                 admits, stats_lock, acceptor>>

NextHeaders == ModifyHeaders \/ ModifyHeadersAgain

SpecHeaders == InitHeaders /\ [][NextHeaders]_vars

(***************************************************************************)
(* The shutdown: main's except KeyboardInterrupt.  The main thread takes   *)
(* no lock; the worker threads go on running until the process ends.       *)
(***************************************************************************)
\* KeyboardInterrupt is raised in the accept loop: the except clause prints
Interrupt ==
  /\ acceptor.pc = "accept"
  /\ acceptor' = [acceptor EXCEPT !.pc = "interrupted",
                                  !.stdout = Append(@, "Keyboard Interrupt: Closing proxy")]
  /\ UNCHANGED <<rewrite, clock, LOG_FLAG, accepted, delivered, conn, request_counter, domain_stats,
                 admits, stats_lock>>

\* main reaches an iteration over domain_stats
Iterate(a, stage) == [a EXCEPT !.pc = stage, !.fresh = TRUE, !.size = 0, !.todo = {}]

\* the iterator is created, noting the dict's size, in the step of its first
\* next(): no other thread runs between the two
Started(a) ==
  IF a.fresh THEN [a EXCEPT !.fresh = FALSE, !.size = Cardinality(DOMAIN domain_stats),
                            !.todo = DOMAIN domain_stats]
  ELSE a

\* if utils.LOG_FLAG: for stats in domain_stats.values() starts; else the close
ShutdownBranch ==
  /\ acceptor.pc = "interrupted"
  /\ acceptor' = IF LOG_FLAG THEN Iterate(acceptor, "reduce")
                 ELSE [acceptor EXCEPT !.pc = "close"]
  /\ UNCHANGED <<rewrite, clock, LOG_FLAG, accepted, delivered, conn, request_counter, domain_stats,
                 admits, stats_lock>>

\* the entry after the loop body: the averages (kept as the pair dividend,
\* divisor; 0 for an entry without requests) are added, the totals are popped
Reduced(e) ==
  [requests |-> e.requests, bytes_sent |-> e.bytes_sent, bytes_received |-> e.bytes_received,
   avg_duration |-> IF e.requests > 0 THEN <<e.total_duration, e.requests>> ELSE <<0, 1>>,
   avg_ttfb |-> IF e.requests > 0 THEN <<e.total_ttfb, e.requests>> ELSE <<0, 1>>]

\* the iterator's next(): RuntimeError (dictionary changed size during
\* iteration) ends main with a traceback, and the process with it
Crashed(a) == [a EXCEPT !.pc = "crashed", !.todo = {}]

\* one round of the loop over domain_stats.values(): the next entry is
\* reduced in place, or the loop ends and json.dump(domain_stats) starts on
\* the file just opened
ReduceEntry ==
  /\ acceptor.pc = "reduce"
  /\ LET a == Started(acceptor)
     IN IF Cardinality(DOMAIN domain_stats) # a.size
          THEN acceptor' = Crashed(a) /\ UNCHANGED domain_stats
          ELSE IF a.todo = {}
            THEN /\ acceptor' = [Iterate(a, "dump") EXCEPT !.summary = "partial"]
                 /\ UNCHANGED domain_stats
            ELSE \E h \in a.todo :
                   /\ acceptor' = [a EXCEPT !.todo = @ \ {h}]
                   /\ domain_stats' = [domain_stats EXCEPT ![h] = Reduced(@)]
  /\ UNCHANGED <<rewrite, clock, LOG_FLAG, accepted, delivered, conn, request_counter, admits,
                 stats_lock>>

\* json.dump(domain_stats, summary_file, indent=4) writes the next entry, or
\* ends and generate_text_summary starts its sums over domain_stats.values()
DumpEntry ==
  /\ acceptor.pc = "dump"
  /\ LET a == Started(acceptor)
     IN acceptor' = IF Cardinality(DOMAIN domain_stats) # a.size THEN Crashed(a)
                    ELSE IF a.todo = {} THEN Iterate(a, "text")
                    ELSE [a EXCEPT !.todo = @ \ {CHOOSE h \in @ : TRUE}]
  /\ UNCHANGED <<rewrite, clock, LOG_FLAG, accepted, delivered, conn, request_counter, domain_stats,
                 admits, stats_lock>>

\* generate_text_summary: a sum over domain_stats.values() takes the next
\* entry, or the sums are done: the report and the chart are written, the
\* print
TextEntry ==
  /\ acceptor.pc = "text"
  /\ LET a == Started(acceptor)
     IN acceptor' = IF Cardinality(DOMAIN domain_stats) # a.size THEN Crashed(a)
                    ELSE IF a.todo = {}
                      THEN [a EXCEPT !.pc = "close", !.summary = "written",
                                     !.stdout = Append(@, "All summaries generated")]
                    ELSE [a EXCEPT !.todo = @ \ {CHOOSE h \in @ : TRUE}]
  /\ UNCHANGED <<rewrite, clock, LOG_FLAG, accepted, delivered, conn, request_counter, domain_stats,
                 admits, stats_lock>>

\* proxy_socket.close()
CloseListen ==
  /\ acceptor.pc = "close"
  /\ acceptor' = [acceptor EXCEPT !.pc = "exit", !.listen = "closed"]
  /\ UNCHANGED <<rewrite, clock, LOG_FLAG, accepted, delivered, conn, request_counter, domain_stats,
                 admits, stats_lock>>

\* os._exit(1): the process ends, no thread is waited for
Exit ==
  /\ acceptor.pc = "exit"
  /\ acceptor' = [acceptor EXCEPT !.pc = "exited"]
  /\ UNCHANGED <<rewrite, clock, LOG_FLAG, accepted, delivered, conn, request_counter, domain_stats,
                 admits, stats_lock>>

\* the requests of the clients of SpecShutdown: two hosts, plain HTTP
ShutdownRequests == {ReqHttp, ReqHttpOther}

ProxyRecvShutdown(c) == ProxyRecv(c, ShutdownRequests)

NextShutdown ==
  \/ Accept(Quota(MaxShutdownConn, 0))
  \/ \E c \in Conns : ReadClock(c)
  \/ \E c \in Conns : CheckRateLimit(c)
  \/ \E c \in Conns : ProxyRecvShutdown(c)
  \/ \E c \in Conns : ProxyResolve(c)
  \/ \E c \in Conns : ProxyClose(c)
  \/ \E c \in Conns : HttpDial(c)
  \/ \E c \in Conns : HttpChunk(c)
  \/ \E c \in Conns : HttpEof(c)
  \/ \E c \in Conns : LogRequest(c)
  \/ \E c \in Conns : StatsAcquire(c)
  \/ \E c \in Conns : UpdateStats(c)
  \/ Interrupt
  \/ ShutdownBranch
  \/ ReduceEntry
  \/ DumpEntry
  \/ TextEntry
  \/ CloseListen
  \/ Exit

SpecShutdown == Init /\ [][NextShutdown]_vars

(***************************************************************************)
(* Properties of the rate limiter.                                         *)
(***************************************************************************)
RECURSIVE AdmittedIn(_, _, _)
\* the number of calls of ip i admitted with a timestamp in a..b
AdmittedIn(i, a, b) ==
  IF a > b THEN 0
  ELSE (IF b \in Times THEN admits[i][b] ELSE 0) + AdmittedIn(i, a, b - 1)

LastTime == MaxTime + MaxTick
Admitted(i) == AdmittedIn(i, 0, LastTime)
Stamps(i) == {t \in Times : admits[i][t] > 0}

\* worker c leaves the critical section of check_rate_limit in this step
Checks(c) == conn[c].pc = "lock" /\ conn'[c].pc # "lock"

\* the check_rate_limit calls of ip i whose critical section is over
NCalls(i) ==
  accepted[i] - Cardinality({c \in Conns : conn[c].ip = i /\ conn[c].pc \in {"start", "lock"}})

\* C1: for every source IP and every interval of WINDOW ticks, at most LIMIT
\* calls were admitted with a timestamp in the interval (the claim as stated;
\* TLC refutes it: now is read before the lock is taken)
C1_RateLimitBound ==
  \A i \in IPs : \A a \in Times : AdmittedIn(i, a, a + WINDOW - 1) <= LIMIT

\* C2: when a call check_rate_limit(ip) made at time now leaves its critical
\* section, admitted or denied, every timestamp t of request_counter[ip] has
\* now - t < WINDOW, and the ledger holds at most LIMIT timestamps
C2_LedgerAfterCall ==
  [][\A c \in Conns : Checks(c) =>
       LET led == request_counter'[conn[c].ip]
       IN /\ \A k \in DOMAIN led : conn[c].now - led[k] < WINDOW
          /\ Len(led) <= LIMIT]_vars

\* C2's case: a call has just returned, and its pruning dropped a timestamp
C2_Witness ==
  \E c \in Conns :
    /\ conn[c].pc \in {"recv", "denied"}
    /\ Admitted(conn[c].ip) > Len(request_counter[conn[c].ip])
    /\ Len(request_counter[conn[c].ip]) = LIMIT

\* no call of ip i was admitted with a timestamp in the WINDOW ticks before T
Quiet(i, T) == \A t \in Stamps(i) : t <= T - WINDOW \/ t >= T

\* C3: if no admission of an IP has a timestamp in the WINDOW ticks before T,
\* each of the first LIMIT calls made at or after T is admitted (a call is
\* made at its now; fewer than LIMIT admissions from T on: it is one of the
\* first LIMIT), whatever was admitted or denied before
C3_Recovery ==
  [][\A c \in Conns : Checks(c) =>
       LET i == conn[c].ip
       IN (\E T \in 0..conn[c].now :
             Quiet(i, T) /\ AdmittedIn(i, T, LastTime) < LIMIT)
          => conn'[c].admitted = "yes"]_vars

\* C3's case: LIMIT admissions and a denial at time 0, nothing for WINDOW
\* ticks, and the LIMIT calls made then were admitted
C3_Witness ==
  /\ admits[Busy][0] = LIMIT
  /\ admits[Busy][WINDOW] = LIMIT
  /\ Admitted(Busy) = 2 * LIMIT
  /\ accepted[Busy] = 2 * LIMIT + 1
  /\ clock = WINDOW
  /\ \E c \in Conns : conn[c].pc = "recv" /\ conn[c].ip = Busy
  /\ \A c \in Conns : conn[c].admitted = "yes"

\* the timestamps admitted so far for ip i, and n, lie inside one window
OneWindow(i, n) ==
  \A t, u \in Stamps(i) \cup {n} : t - u < WINDOW

\* C4: the first LIMIT+1 calls of an IP, all inside one window, starting from
\* an empty ledger: in the order of their critical sections the first LIMIT
\* are admitted and go on to read the request, the (LIMIT+1)-th is denied, is
\* handed the 429 status line and then has its client socket closed
C4_FirstLimitThen429 ==
  /\ [][\A c \in Conns : Checks(c) =>
          LET i == conn[c].ip
              k == NCalls(i) + 1
          IN (Admitted(i) = k - 1 /\ OneWindow(i, conn[c].now)) =>
               /\ k <= LIMIT => conn'[c].pc = "recv" /\ conn'[c].out = <<>>
                                 /\ conn'[c].client = "open"
               /\ k = LIMIT + 1 => conn'[c].pc = "denied"]_vars
  /\ [][\A c \in Conns : (conn[c].pc = "denied" /\ conn'[c] # conn[c]) =>
          conn'[c].out = <<Line429>> /\ conn'[c].pc = "close"]_vars
  /\ [][\A c \in Conns : (conn[c].pc = "close" /\ conn'[c] # conn[c]) =>
          conn'[c].out = conn[c].out /\ conn'[c].client = "closed"
          /\ conn'[c].pc = "done"]_vars

\* C4's case: LIMIT+1 connections of one IP inside one window, the last one
\* answered 429 and closed
C4_Witness ==
  /\ accepted[Busy] = LIMIT + 1
  /\ Admitted(Busy) = LIMIT
  /\ OneWindow(Busy, clock)
  /\ \E c \in Conns : /\ conn[c].pc = "done" /\ conn[c].admitted = "no"
                       /\ conn[c].out = <<Line429>> /\ conn[c].client = "closed"

\* C5: every denied connection hands one RateLimited event to the event sink,
\* with the source IP and the ledger length at the denial (the claim as
\* stated; TLC refutes it: proxy only prints)
C5_RateLimitedEvent ==
  \A c \in Conns : (conn[c].pc = "done" /\ conn[c].admitted = "no") =>
    \E k \in DOMAIN conn[c].sink :
      /\ conn[c].sink[k].kind = "RateLimited"
      /\ conn[c].sink[k].ip = conn[c].ip
      /\ conn[c].sink[k].current_count = LIMIT

\* C28: the admission is consumed by the rate check, before the request is
\* looked at.  A call that is admitted leaves its IP's ledger as the kept
\* timestamps plus exactly one, its own; a denied call adds none; no call
\* changes the ledger of another IP; and no later step of any worker (the
\* read, the 400, 403 or 502 answer, the failed dial, the close) changes a
\* ledger.  Hence a call made when LIMIT connections of its IP were admitted
\* inside one window is denied, although every one of them was rejected
C28_SlotBeforeValidation ==
  /\ [][\A c \in Conns : Checks(c) =>
          LET i == conn[c].ip
              kept == Prune(request_counter[i], conn[c].now)
          IN /\ conn'[c].admitted = "yes" =>
                  /\ Len(request_counter'[i]) = Len(kept) + 1
                  /\ SubSeq(request_counter'[i], 1, Len(kept)) = kept
                  /\ request_counter'[i][Len(kept) + 1] = conn[c].now
             /\ conn'[c].admitted = "no" => request_counter'[i] = kept
             /\ \A j \in IPs \ {i} : request_counter'[j] = request_counter[j]
             /\ (Admitted(i) >= LIMIT /\ OneWindow(i, conn[c].now)) =>
                  conn'[c].admitted = "no"]_vars
  /\ [][(\A c \in Conns : ~Checks(c)) => request_counter' = request_counter]_vars
  /\ [](\A c \in Conns : conn[c].pc = "done" => conn[c].updates = 0)

\* C28's case: LIMIT connections of one IP were admitted, sent a request and
\* were rejected; the next connection of that IP, in the same window, was
\* answered 429; the other IP was admitted meanwhile
C28_Witness ==
  /\ accepted[Busy] = LIMIT + 1
  /\ Admitted(Busy) = LIMIT
  /\ Admitted(Other) = 1
  /\ delivered = LIMIT
  /\ OneWindow(Busy, clock)
  /\ \A c \in Conns : conn[c].pc = "done" /\ conn[c].ip = Busy
  /\ \E c \in Conns : conn[c].admitted = "no" /\ conn[c].out = <<Line429>>
  /\ \E c \in Conns : conn[c].admitted = "yes" /\ conn[c].out = <<Line403>>

(***************************************************************************)
(* Properties of the connection worker and the handlers.                   *)
(***************************************************************************)
Parsed(cn) == parse_server_info(cn.raw)
\* the request read is invalid
Malformed(cn) == cn.recv = "data" /\ ~Parsed(cn).valid
\* the request read is valid and its lowercased hostname matches the blocklist
Blocked(cn) == cn.recv = "data" /\ Parsed(cn).valid /\ is_blocked(Parsed(cn).hostname)
\* the request read is a valid CONNECT
Connect(cn) == cn.recv = "data" /\ Parsed(cn).valid /\ Parsed(cn).is_connect

\* the worker sent exactly this status line, closed the client socket and
\* never dialled an origin
Answered(cn, line) ==
  cn.out = <<line>> /\ cn.client = "closed" /\ cn.dial = None /\ cn.server = "none"

\* a status line is handed to sendall only while the client socket is open:
\* the close comes after it
SendsBeforeClose ==
  \A c \in Conns : (conn'[c].out # conn[c].out /\ conn'[c].out # <<>>) =>
    conn[c].client = "open"

\* C6, as stated: a worker that ended on an error terminal sent the
\* terminal's status line, closed, and never dispatched: denial 429, empty
\* read or read error 502, invalid request 400, blocked host 403, resolution
\* failure 502 (TLC refutes it: a read error closes without a status line)
C6_ErrorTerminals ==
  \A c \in Conns : conn[c].pc = "done" =>
    /\ conn[c].admitted = "no" => Answered(conn[c], Line429)
    /\ conn[c].recv \in {"empty", "error"} => Answered(conn[c], Line502)
    /\ Malformed(conn[c]) => Answered(conn[c], Line400)
    /\ Blocked(conn[c]) => Answered(conn[c], Line403)
    /\ conn[c].resolved = "failed" => Answered(conn[c], Line502)

\* C6, amended: as C6, except that a read error (the 1 s read timeout
\* included) closes the client socket without any status line; every status
\* line is sent before the socket is closed
C6_ErrorTerminalsAmended ==
  /\ [](\A c \in Conns : conn[c].pc = "done" =>
          /\ conn[c].admitted = "no" => Answered(conn[c], Line429)
          /\ conn[c].recv = "empty" => Answered(conn[c], Line502)
          /\ conn[c].recv = "error" =>
                /\ conn[c].out = <<>> /\ conn[c].client = "closed"
                /\ conn[c].dial = None /\ conn[c].server = "none"
          /\ Malformed(conn[c]) => Answered(conn[c], Line400)
          /\ Blocked(conn[c]) => Answered(conn[c], Line403)
          /\ conn[c].resolved = "failed" => Answered(conn[c], Line502))
  /\ [][SendsBeforeClose]_vars

\* C6's case: one worker ended on a read error, another on an invalid request
C6_Witness ==
  \E c, d \in Conns :
    /\ conn[c].pc = "done" /\ conn[c].recv = "error" /\ conn[c].client = "closed"
    /\ conn[d].pc = "done" /\ Malformed(conn[d]) /\ conn[d].out = <<Line400>>

HasEvent(cn, kind) == \E k \in DOMAIN cn.sink : cn.sink[k].kind = kind

\* C7: a worker whose request is valid and names a blocked host never
\* resolves the name and never dials; when it has ended it has sent 403 and
\* closed, and it handed a RequestBlocked event for that host to the logger
\* if and only if logging is enabled
C7_BlockedHost ==
  \A c \in Conns : Blocked(conn[c]) =>
    /\ conn[c].resolved = None /\ conn[c].dial = None /\ conn[c].server = "none"
    /\ conn[c].pc = "done" =>
         /\ conn[c].out = <<Line403>> /\ conn[c].client = "closed"
         /\ LOG_FLAG <=> \E k \in DOMAIN conn[c].sink :
                           /\ conn[c].sink[k].kind = "RequestBlocked"
                           /\ conn[c].sink[k].host = Parsed(conn[c]).hostname
         /\ Len(conn[c].sink) <= 1

\* C7's case: logging is on, a request for M.YouTube.com was answered 403
C7_Witness ==
  \E c \in Conns :
    /\ LOG_FLAG /\ conn[c].pc = "done" /\ conn[c].raw = ReqBlockedHttp
    /\ conn[c].out = <<Line403>> /\ HasEvent(conn[c], "RequestBlocked")

\* the worker is on its way to, or at, one of the failures of C8
Failed(cn) ==
  \/ cn.admitted = "no" \/ Malformed(cn) \/ Blocked(cn)
  \/ cn.resolved = "failed" \/ cn.dial = "failed"

\* C8: a worker that is rate-limited, read an invalid request or a blocked
\* host, could not resolve the host or could not dial the origin hands no
\* RequestCompleted event to the logger and never updates the statistics:
\* every change of domain_stats is the update of a worker with none of these
C8_NoReportOnFailure ==
  /\ [](\A c \in Conns : Failed(conn[c]) =>
          conn[c].updates = 0 /\ ~HasEvent(conn[c], "RequestCompleted"))
  /\ [][domain_stats' # domain_stats =>
          \E c \in Conns : /\ conn[c].pc = "stats_cs" /\ conn'[c].updates = conn[c].updates + 1
                            /\ ~Failed(conn[c])]_vars

\* C8's case: a worker ended on a failed dial while the map holds an entry
C8_Witness ==
  /\ DOMAIN domain_stats # {}
  /\ \E c \in Conns : conn[c].pc = "done" /\ conn[c].dial = "failed"
  /\ \E c \in Conns : conn[c].pc = "done" /\ conn[c].dial = "ok" /\ conn[c].updates = 1

\* C9: a CONNECT worker whose origin dial failed has sent 502 Bad Gateway and
\* closed the client socket, and never sent the 200 line (the claim as
\* stated; TLC refutes it: handle_https closes without a status line)
C9_ConnectDialFailure ==
  \A c \in Conns : (conn[c].pc = "done" /\ Connect(conn[c]) /\ conn[c].dial = "failed") =>
    conn[c].out = <<Line502>> /\ conn[c].client = "closed"

NoBytes == [co |-> 0, oc |-> 0]

\* C10: the 200 line is written only by a CONNECT worker whose dial
\* succeeded, at most once, and a relay thread exists or has forwarded a chunk
\* only after it was written
C10_EstablishedBeforeRelay ==
  /\ [](\A c \in Conns :
          /\ (\E k \in DOMAIN conn[c].out : conn[c].out[k] = Line200) =>
                Connect(conn[c]) /\ conn[c].dial = "ok" /\ conn[c].out = <<Line200>>
          /\ (conn[c].bytes # NoBytes \/ conn[c].relay.co # "idle" \/ conn[c].relay.oc # "idle")
                => conn[c].out = <<Line200>>)
  /\ [][\A c \in Conns : (conn'[c].bytes # conn[c].bytes /\ conn'[c].bytes # NoBytes) =>
          conn[c].out = <<Line200>> /\ conn'[c].out = conn[c].out]_vars

\* C10's case: both relays of a tunnel have forwarded a chunk
C10_Witness ==
  \E c \in Conns :
    /\ conn[c].bytes.co > 0 /\ conn[c].bytes.oc > 0
    /\ conn[c].out = <<Line200>> /\ conn[c].dial = "ok"

(***************************************************************************)
(* Properties of the tunnel.                                               *)
(***************************************************************************)
\* C11: in a tunnel, once one relay direction has terminated the other one
\* forwards no further bytes (the claim as stated; TLC refutes it: each relay
\* runs until an event on its own source socket, and forwards until then)
C11_HalfCloseEndsTunnel ==
  [][\A c \in Conns :
       (conn[c].pc = "tunnel" /\ conn'[c].pc = "tunnel"
        /\ \E d \in Dirs : conn[c].relay[d] = "done")
       => conn'[c].bytes = conn[c].bytes /\ conn'[c].wire = conn[c].wire]_vars

\* C12: for a CONNECT session carried to its report, bytes_sent is the number
\* of bytes written origin-to-client and bytes_received the number written
\* client-to-origin (the claim as stated; TLC refutes it: a chunk whose
\* sendall raised part-way is on the wire and is not counted)
C12_TunnelAccounting ==
  \A c \in Conns :
    (Connect(conn[c]) /\ conn[c].pc \in {"log", "stats", "stats_cs"}) =>
      /\ BytesSent(conn[c]) = conn[c].wire.oc
      /\ BytesReceived(conn[c]) = conn[c].wire.co

(***************************************************************************)
(* Properties of the statistics map and of the report.                     *)
(***************************************************************************)
\* the entry of host h before its first update
Fresh(h) == IF h \in DOMAIN domain_stats THEN domain_stats[h]
            ELSE [requests |-> 0, bytes_sent |-> 0, bytes_received |-> 0,
                  total_duration |-> 0, total_ttfb |-> 0]

\* worker c completes a call of update_domain_stats for host h in this step
CompletesUpdate(c, h) ==
  /\ conn[c].pc = "stats_cs" /\ conn'[c].updates = conn[c].updates + 1
  /\ Hostname(conn[c]) = h

\* C13: whatever the interleaving of the workers, no host ever leaves the
\* map, and an entry changes only by a completed call of update_domain_stats
\* for its host, which adds 1 to requests and the call's arguments to the
\* other counters (ttfb only when it is not None); so every counter is the sum
\* of the arguments of the completed calls and never decreases
C13_StatsAreSums ==
  [][/\ DOMAIN domain_stats \subseteq DOMAIN domain_stats'
     /\ \A h \in DOMAIN domain_stats' :
          \/ h \in DOMAIN domain_stats /\ domain_stats'[h] = domain_stats[h]
          \/ \E c \in Conns :
               /\ CompletesUpdate(c, h)
               /\ \A d \in Conns \ {c} : conn'[d].updates = conn[d].updates
               /\ domain_stats'[h].requests = Fresh(h).requests + 1
               /\ domain_stats'[h].bytes_sent = Fresh(h).bytes_sent + BytesSent(conn[c])
               /\ domain_stats'[h].bytes_received =
                    Fresh(h).bytes_received + BytesReceived(conn[c])
               /\ domain_stats'[h].total_duration = Fresh(h).total_duration + conn[c].duration
               /\ domain_stats'[h].total_ttfb =
                    Fresh(h).total_ttfb + (IF conn[c].ttfb = 0 - 1 THEN 0 ELSE conn[c].ttfb)
               /\ BytesSent(conn[c]) >= 0 /\ BytesReceived(conn[c]) >= 0
               /\ conn[c].duration >= 0 /\ conn[c].ttfb >= 0 - 1]_vars

\* C13's case: two workers have updated the entry of one host, one of them
\* with a ttfb of None, while the other worker slot was in use
C13_Witness ==
  /\ Example \in DOMAIN domain_stats
  /\ domain_stats[Example].requests = 2
  /\ domain_stats[Example].bytes_sent > 0
  /\ \A c \in Conns : conn[c].updates = 1

\* the number of events of a kind the worker handed to the logger
RECURSIVE CountEvents(_, _)
CountEvents(sink, kind) ==
  IF sink = <<>> THEN 0
  ELSE (IF Head(sink).kind = kind THEN 1 ELSE 0) + CountEvents(Tail(sink), kind)

\* the handler carried the request to completion (HTTP: the origin closed the
\* response stream; CONNECT: both relays were joined) and the worker returned
Completed(cn) == cn.pc = "done" /\ cn.end \in {"completed", "sink_error"}

\* C15: a worker whose handler carried the request to completion has made
\* exactly one update of the statistics map and, if logging is enabled, has
\* handed exactly one RequestCompleted event to the logger; no worker ever
\* makes more than one of either (the claim as stated; TLC refutes it: when
\* the logger raises, the update is skipped)
C15_OneReport ==
  \A c \in Conns :
    /\ conn[c].updates <= 1
    /\ CountEvents(conn[c].sink, "RequestCompleted") <= 1
    /\ Completed(conn[c]) =>
         /\ conn[c].updates = 1
         /\ CountEvents(conn[c].sink, "RequestCompleted") = IF LOG_FLAG THEN 1 ELSE 0

\* C16: a worker whose logger raised has done what it does when the logger
\* succeeds: the statistics update after a completion event, the 403 after a
\* blocked event (the claim as stated; TLC refutes it: log_request raising
\* lands in the handler's except, which skips update_domain_stats)
C16_SinkFailureHarmless ==
  \A c \in Conns : conn[c].pc = "done" =>
    /\ conn[c].end = "sink_error" => conn[c].updates = 1
    /\ (\E k \in DOMAIN conn[c].stdout : conn[c].stdout[k] = "Failed to log blocked request")
         => conn[c].out = <<Line403>> /\ conn[c].client = "closed"

\* C17: a worker whose peer went away while the HTTP response was forwarded
\* (the client during sendall, the origin with a reset during recv) has still
\* made its statistics update and, if logging is enabled, handed its completion
\* event to the logger (the claim as stated; TLC refutes it: both errors land
\* in handle_http's except, which reports nothing)
C17_PeerGoneStillReports ==
  \A c \in Conns :
    (conn[c].pc = "done" /\ conn[c].end \in {"client_gone", "origin_reset"}) =>
      /\ conn[c].updates = 1
      /\ LOG_FLAG => HasEvent(conn[c], "RequestCompleted")

\* C18: when a worker has returned, its client socket is closed and the
\* origin socket it dialled, if any, is closed (the claim as stated; TLC
\* refutes it: handle_http returns from a completed request without closing
\* the client socket)
C18_SocketsReleased ==
  \A c \in Conns : conn[c].pc = "done" =>
    conn[c].client = "closed" /\ conn[c].server \in {"none", "closed"}

(***************************************************************************)
(* Properties of the order of the stages.                                  *)
(***************************************************************************)
\* the worker is in, or has passed, the report of a handler
Reporting(cn) ==
  cn.pc \in {"log", "stats", "stats_cs"} \/ cn.updates > 0
  \/ HasEvent(cn, "RequestCompleted")

\* C22: the stages of a connection happen in the order admit, read,
\* classify, policy, resolve, dispatch, report, each after the one before
\* succeeded: nothing is read before the rate check admitted the connection
\* and nothing is ever read from a denied one; a hostname is resolved only
\* for a request that was read, is valid and is not blocked; an origin is
\* dialled only after the resolution succeeded; the report is made only
\* after the origin was dialled
C22_StageOrder ==
  \A c \in Conns :
    /\ conn[c].recv # None => conn[c].admitted = "yes"
    /\ conn[c].admitted = "no" => conn[c].recv = None /\ conn[c].raw = NoRequest
    /\ conn[c].resolved # None =>
         /\ conn[c].recv = "data"
         /\ Parsed(conn[c]).valid
         /\ ~is_blocked(Hostname(conn[c]))
    /\ conn[c].dial # None => conn[c].resolved = "ok"
    /\ Reporting(conn[c]) => conn[c].dial = "ok"

\* a worker went through every stage
C22_Witness ==
  \E c \in Conns :
    /\ conn[c].admitted = "yes" /\ conn[c].recv = "data" /\ conn[c].resolved = "ok"
    /\ conn[c].dial = "ok" /\ conn[c].updates = 1 /\ conn[c].pc = "done"

\* C23: in a CONNECT session the totals are taken, the completion event is
\* emitted and the statistics are updated only after both relay threads
\* have ended, and while a relay thread runs the client socket and the
\* origin socket are open
C23_ReportAfterBothRelays ==
  \A c \in Conns :
    /\ (conn[c].recv = "data" /\ IsConnect(conn[c]) /\ Reporting(conn[c])) =>
         \A d \in Dirs : conn[c].relay[d] = "done"
    /\ (\E d \in Dirs : conn[c].relay[d] = "run") =>
         conn[c].client = "open" /\ conn[c].server = "open"

\* a CONNECT session that relayed bytes in both directions has reported
C23_Witness ==
  \E c \in Conns :
    /\ conn[c].recv = "data" /\ IsConnect(conn[c])
    /\ conn[c].bytes.co > 0 /\ conn[c].bytes.oc > 0
    /\ conn[c].updates = 1 /\ conn[c].pc = "done"

(***************************************************************************)
(* Properties of the HTTP forwarder and of the tunnel's end.               *)
(***************************************************************************)
\* the worker forwards an HTTP response, or has forwarded one
Forwarding(cn) == cn.recv = "data" /\ ~IsConnect(cn) /\ cn.dial = "ok"

\* C26: every chunk the HTTP forwarder has read from the origin was
\* delivered to the client and counted in bytes_sent before the loop went on
\* (the claim as stated; TLC refutes it: a timeout of client_socket.sendall
\* is caught by the loop's except socket.timeout: continue, the chunk is
\* dropped and the next one is read)
C26_NoChunkSkipped ==
  \A c \in Conns :
    (Forwarding(conn[c]) /\ conn[c].pc \in {"http_loop", "log", "stats", "stats_cs"}) =>
      conn[c].sent = conn[c].got

\* C25: once the origin has closed the connection of an HTTP forwarder (the
\* loop was left by break), the forwarder eventually makes its statistics
\* update and, if logging is enabled, has emitted its completion event (the
\* claim as stated; TLC refutes it: log_request raising ends the handler in
\* its except, with no statistics update)
C25_OriginCloseReports ==
  \A c \in Conns :
    (Forwarding(conn[c]) /\ conn[c].pc = "log") ~>
      (conn[c].updates = 1 /\ (LOG_FLAG => HasEvent(conn[c], "RequestCompleted")))

\* C27: a CONNECT tunnel whose relays were started eventually ends and is
\* reported: the statistics are updated and, if logging is enabled, the
\* completion event was emitted (the claim as stated; TLC refutes it: the
\* relays do end, but log_request raising skips the statistics update)
C27_TunnelEndsAndReports ==
  \A c \in Conns :
    conn[c].pc = "tunnel" ~>
      (conn[c].updates = 1 /\ (LOG_FLAG => HasEvent(conn[c], "RequestCompleted")))

\* every tunnel whose relays were started is left by join
TunnelEnds == \A c \in Conns : conn[c].pc = "tunnel" ~> conn[c].pc # "tunnel"

(***************************************************************************)
(* Properties of the classifier.                                           *)
(***************************************************************************)
\* C20: a CONNECT request is classified valid only if the text after the
\* first ":" of its target is an integer in 1..65535, and a CONNECT request
\* whose port is an integer outside 1..65535 is answered 400 (the claim as
\* stated; TLC refutes it: parse_server_info checks no range)
C20_ConnectPortRange ==
  \A c \in Conns :
    (conn[c].recv = "data" /\ conn[c].raw.nparts >= 2
     /\ Upper(conn[c].raw.method) = "CONNECT") =>
      /\ Parsed(conn[c]).valid =>
           conn[c].raw.port \in IntTexts /\ ToInt(conn[c].raw.port) \in 1..65535
      /\ (conn[c].raw.port \in IntTexts /\ ToInt(conn[c].raw.port) \notin 1..65535) =>
           conn[c].out = <<Line400>>

(***************************************************************************)
(* Properties of modify_headers.                                           *)
(***************************************************************************)
\* the Connection lines of a text
ConnectionLines(ls) == {k \in DOMAIN ls : IsConnectionLine(ls[k])}

\* C21: the output of modify_headers has exactly one Connection line, and it
\* is "Connection: close"; modify_headers applied to its own output returns
\* it unchanged (the claim as stated; TLC refutes it: every Connection line
\* of the input is rewritten in place, so several stay several)
C21_OneConnectionClose ==
  /\ rewrite.n >= 1 =>
       /\ Cardinality(ConnectionLines(rewrite.once)) = 1
       /\ \A k \in ConnectionLines(rewrite.once) : rewrite.once[k] = LineClose
  /\ rewrite.n = 2 => rewrite.twice = rewrite.once

(***************************************************************************)
(* Properties of the shutdown.                                             *)
(***************************************************************************)
\* the thread that holds domain_stats_lock takes this step
HolderActs == stats_lock \in Conns /\ conn'[stats_lock] # conn[stats_lock]

\* C14: every step that modifies domain_stats or one of its entries, and
\* every step of an iteration over the map, is a step of the thread holding
\* domain_stats_lock (the claim as stated; TLC refutes it: main reduces and
\* dumps the map without the lock)
C14_StatsUnderLock ==
  [][(domain_stats' # domain_stats \/ acceptor'.todo # acceptor.todo
      \/ (acceptor.fresh /\ ~acceptor'.fresh)) => HolderActs]_vars

\* C24: the reduction leaves the entries of domain_stats as they are, and
\* no update_domain_stats call fails (the claim as stated; TLC refutes it:
\* main adds the averages to the live entries and pops their totals, and an
\* update of a reduced entry raises KeyError)
C24_ReducerLeavesEntries ==
  /\ [][(acceptor.pc = "reduce" /\ acceptor' # acceptor) =>
          domain_stats' = domain_stats]_vars
  /\ [](\A c \in Conns : conn[c].end # "stats_error")

\* C19: after the interrupt no connection is accepted; the listen socket is
\* closed only after the summary was written if logging is enabled, and
\* without any summary if it is not; the process ends only after the listen
\* socket was closed (the claim as stated; TLC refutes it: with logging on,
\* the unlocked iteration can raise and end the process with no summary
\* written and the close skipped)
C19_ShutdownOrder ==
  /\ [](/\ acceptor.listen = "closed" => (acceptor.summary = "written" <=> LOG_FLAG)
        /\ ~LOG_FLAG => acceptor.summary = "none"
        /\ ~Alive => acceptor.listen = "closed")
  /\ [][acceptor.pc # "accept" => accepted' = accepted]_vars

====
